---- MODULE Spec2Model ----
(***************************************************************************)
(* Model of the news screener of StockNewsScreener: the FyersNewsScreener  *)
(* object (bot_core/news_screener.py), the scan endpoint that runs          *)
(* scan_stocks on a background thread and the detail endpoint (app.py),    *)
(* the signal determiner, and the sentiment classifier and the scorer of   *)
(* bot_core/enhanced_screener.py.                                          *)
(*                                                                         *)
(* Numbers: volume_ratio, range_ratio and price_change are kept in tenths  *)
(* (15 is 1.5, -60 is -6.0 %), prices in rupees, a sentiment score as the  *)
(* fraction of two integers.                                               *)
(***************************************************************************)
EXTENDS Integers, Sequences, FiniteSets, TLC

\* ------------------------------------------------------------------ bounds
NSym == 2            \* symbols of the universe that are modelled
MaxScans == 2        \* scan threads ever started
MaxObjects == 2      \* FyersNewsScreener objects ever constructed
MaxRequests == 3     \* requests that pass the before_request hooks

Universe == 1 .. NSym
Workers == 1 .. MaxScans
Requests == 1 .. MaxRequests

\* --------------------------------------------------- module-level settings
VOLUME_SURGE_THRESHOLD == 15
PRICE_CHANGE_MIN == 10
PRICE_CHANGE_MAX == 200
MIN_PRICE == 10
MAX_PRICE == 10000
StrongRatio == 30
MinCandles == 10
NoScreener == 0

DefaultConfig ==
  [vst |-> VOLUME_SURGE_THRESHOLD, pcmin |-> PRICE_CHANGE_MIN,
   pcmax |-> PRICE_CHANGE_MAX, minp |-> MIN_PRICE, maxp |-> MAX_PRICE]

\* The thresholds the environment may set instead (the former defaults).
EnvConfig ==
  [vst |-> 20, pcmin |-> 30, pcmax |-> 150, minp |-> 20, maxp |-> 5000]

\* A setting with PRICE_CHANGE_MIN=0: a flat price is then a significant move.
FlatConfig ==
  [vst |-> 10, pcmin |-> 0, pcmax |-> 200, minp |-> 10, maxp |-> 10000]

Configs == {DefaultConfig, EnvConfig, FlatConfig}

VARIABLES
  config,           \* the module globals read from the environment at import
  news_screener,    \* app.py global: NoScreener or the id of the current object
  is_scanning,      \* is_scanning[o]: the flag of screener object o
  screened_stocks,  \* screened_stocks[o]: the result list of screener object o
  pc,               \* pc[w]: the line scan thread w executes next
  self,             \* self[w]: the screener object whose scan_stocks w runs
  idx,              \* idx[w]: how many symbols of the universe w has taken
  processed,        \* processed[w]: the symbols w has taken, in order
  found,            \* found[w]: the symbols w appended an entry for
  caught,           \* history: the except clause of line 272 has been entered
  qualified,        \* history: the symbols whose inputs met every condition
  raced,            \* history: the threads whose scan overlapped another one
  ord,              \* history: number of entries appended so far
  last,             \* the response to the last scan or analyze request
  dsIn, dsOut,      \* argument and result of one determine_signal call
  call, ret,        \* one call of an analysis function and what it gave
  environ,          \* os.environ after load_dotenv: the variables that are set
  session,          \* session['screener_settings'] of the one client
  SCREENER_RESULTS, \* socket_worker.py global read by the tick broadcaster
  tick,             \* the last tick emitted to the dashboard
  bot_thread,       \* app.py global: NoThread or the id of a Thread object
  threads,          \* threads[t]: Thread object t has been started
  hook              \* hook[r]: the line of start_bot_once request r is at

vars == <<config, news_screener, is_scanning, screened_stocks, pc, self, idx,
          processed, found, caught, qualified, raced, ord, last, dsIn,
          dsOut, call, ret, environ, session, SCREENER_RESULTS, tick,
          bot_thread, threads, hook>>

appVars == <<environ, session, SCREENER_RESULTS, tick, bot_thread, threads, hook>>

scanVars == <<news_screener, is_scanning, screened_stocks, pc, self, idx,
              processed, found, caught, qualified, raced, ord, last>>

None == <<>>
Some(x) == <<x>>

Abs(x) == IF x < 0 THEN -x ELSE x

\* ------------------------------------------------------- the environment
\* os.environ as load_dotenv leaves it (auth.py line 7 runs before
\* news_screener.py is imported): each screening variable is unset or holds
\* a number, in the units of the model.
EnvKeys ==
  {"VOLUME_SURGE_THRESHOLD", "PRICE_CHANGE_MIN", "PRICE_CHANGE_MAX",
   "LOOKBACK_DAYS", "MIN_PRICE", "MAX_PRICE"}

NoEnv == [k \in EnvKeys |-> None]

\* Every variable set, to the former defaults.
FormerEnv ==
  [k \in EnvKeys |->
     Some(CASE k = "VOLUME_SURGE_THRESHOLD" -> 20
            [] k = "PRICE_CHANGE_MIN" -> 30
            [] k = "PRICE_CHANGE_MAX" -> 150
            [] k = "LOOKBACK_DAYS" -> 5
            [] k = "MIN_PRICE" -> 20
            [] k = "MAX_PRICE" -> 5000)]

FlatEnv ==
  [NoEnv EXCEPT !["VOLUME_SURGE_THRESHOLD"] = Some(10),
                !["PRICE_CHANGE_MIN"] = Some(0)]

\* Only the price range is set.
RangeEnv == [NoEnv EXCEPT !["MIN_PRICE"] = Some(50), !["MAX_PRICE"] = Some(2000)]

Envs == {NoEnv, FormerEnv, FlatEnv}

\* os.getenv(key, default).
getenv(env, key, default) == IF env[key] = None THEN default ELSE env[key][1]

LOOKBACK_DAYS == 5

\* Lines 29-34 of news_screener.py: the module globals, read once at import.
LoadConfig(env) ==
  [vst |-> getenv(env, "VOLUME_SURGE_THRESHOLD", VOLUME_SURGE_THRESHOLD),
   pcmin |-> getenv(env, "PRICE_CHANGE_MIN", PRICE_CHANGE_MIN),
   pcmax |-> getenv(env, "PRICE_CHANGE_MAX", PRICE_CHANGE_MAX),
   minp |-> getenv(env, "MIN_PRICE", MIN_PRICE),
   maxp |-> getenv(env, "MAX_PRICE", MAX_PRICE)]

\* ------------------------------------------------------- determine_signal
\* Variant: the ratio 3.0 itself already counts as strong.
StrengthInclusive(volume_ratio, news_count) ==
  IF news_count > 0 THEN "VERY STRONG"
  ELSE IF volume_ratio >= StrongRatio THEN "STRONG" ELSE "MODERATE"

\* Variant: news lifts the strength only on top of a ratio above 3.
StrengthNewsOnTop(volume_ratio, news_count) ==
  IF volume_ratio > StrongRatio
  THEN IF news_count > 0 THEN "VERY STRONG" ELSE "STRONG"
  ELSE "MODERATE"

Strength(volume_ratio, news_count) ==
  IF news_count > 0 THEN "VERY STRONG"
  ELSE IF volume_ratio > StrongRatio THEN "STRONG" ELSE "MODERATE"

\* Variant: a ratio equal to the threshold is no surge.
VolumeSurgeStrict(cfg, analysis) == analysis.volume_ratio > cfg.vst

VolumeSurge(cfg, analysis) == analysis.volume_ratio >= cfg.vst

SignificantMove(cfg, analysis) ==
  /\ cfg.pcmin <= Abs(analysis.price_change)
  /\ Abs(analysis.price_change) <= cfg.pcmax

\* Variant: a flat price counts as a rise.
BullishInclusive(analysis) == analysis.price_change >= 0

\* Line 186: the branch that returns BULLISH; the else branch is BEARISH.
Bullish(analysis) == analysis.price_change > 0

determine_signal(cfg, analysis, news_count) ==
  IF analysis = None THEN None
  ELSE LET a == analysis[1] IN
    IF VolumeSurge(cfg, a) /\ SignificantMove(cfg, a)
    THEN IF Bullish(a)
         THEN Some([signal |-> "BULLISH", action |-> "BUY (Delivery)",
                    strength |-> Strength(a.volume_ratio, news_count)])
         ELSE Some([signal |-> "BEARISH", action |-> "SELL (Intraday)",
                    strength |-> Strength(a.volume_ratio, news_count)])
    ELSE None

\* ----------------------------------------------- analyze_volume_and_price
\* df is None or the candle frame, a sequence of candles with their volume,
\* high and low, oldest first. Ratios are in tenths, rounded down.
RECURSIVE SumVolume(_)
SumVolume(candles) ==
  IF candles = <<>> THEN 0
  ELSE Head(candles).volume + SumVolume(Tail(candles))

\* df['range'] = df['high'] - df['low'], summed.
RECURSIVE SumRange(_)
SumRange(candles) ==
  IF candles = <<>> THEN 0
  ELSE (Head(candles).high - Head(candles).low) + SumRange(Tail(candles))

\* Variant: nine candles are already enough.
TooShortLax(df) == df = None \/ Len(df[1]) < MinCandles - 1

\* Line 143: df is None or len(df) < 10.
TooShort(df) == df = None \/ Len(df[1]) < MinCandles

\* The means are sums over counts: avg_volume is SumVolume(hist) / Len(hist)
\* over the candles but the last, avg_range is SumRange(df) / Len(df); a
\* mean is above 0 exactly when its sum is.
analyze_volume_and_price(df, quote) ==
  IF TooShort(df) THEN None
  ELSE LET candles == df[1]
           hist == SubSeq(candles, 1, Len(candles) - 1)
           volumes == SumVolume(hist)
           ranges == SumRange(candles)
           current_range == Abs(quote.ltp - quote.prev_close)
       IN Some([volume_ratio |->
                  IF volumes > 0
                  THEN (quote.volume * Len(hist) * 10) \div volumes
                  ELSE 0,
                price_change |-> quote.change_percent,
                range_ratio |->
                  IF ranges > 0
                  THEN (current_range * Len(candles) * 10) \div ranges
                  ELSE 0])

\* ------------------------------------------------------------ NewsAnalyzer
\* A text is a sequence of characters, so that "keyword in text" is the
\* search for a contiguous run of characters that Python makes.
POSITIVE_KEYWORDS == {
  <<"c","o","n","t","r","a","c","t">>,  \* contract
  <<"d","e","a","l">>,  \* deal
  <<"w","i","n">>,  \* win
  <<"w","o","n">>,  \* won
  <<"a","w","a","r","d","e","d">>,  \* awarded
  <<"g","r","o","w","t","h">>,  \* growth
  <<"p","r","o","f","i","t">>,  \* profit
  <<"s","u","r","g","e">>,  \* surge
  <<"g","a","i","n">>,  \* gain
  <<"r","e","c","o","r","d">>,  \* record
  <<"h","i","g","h">>,  \* high
  <<"a","c","q","u","i","s","i","t","i","o","n">>,  \* acquisition
  <<"e","x","p","a","n","d">>,  \* expand
  <<"p","a","r","t","n","e","r","s","h","i","p">>,  \* partnership
  <<"c","o","l","l","a","b","o","r","a","t","i","o","n">>,  \* collaboration
  <<"s","u","c","c","e","s","s">>,  \* success
  <<"b","r","e","a","k","t","h","r","o","u","g","h">>,  \* breakthrough
  <<"i","n","n","o","v","a","t","i","o","n">>,  \* innovation
  <<"d","i","v","i","d","e","n","d">>,  \* dividend
  <<"b","u","y","b","a","c","k">>,  \* buyback
  <<"u","p","g","r","a","d","e">>,  \* upgrade
  <<"p","o","s","i","t","i","v","e">>,  \* positive
  <<"a","p","p","r","o","v","a","l">>,  \* approval
  <<"o","r","d","e","r">>,  \* order
  <<"r","e","v","e","n","u","e">>,  \* revenue
  <<"b","e","a","t">>,  \* beat
  <<"e","x","c","e","e","d">>,  \* exceed
  <<"s","t","r","o","n","g">>,  \* strong
  <<"r","o","b","u","s","t">>,  \* robust
  <<"b","u","l","l","i","s","h">>   \* bullish
}

NEGATIVE_KEYWORDS == {
  <<"l","o","s","s">>,  \* loss
  <<"l","o","s","s","e","s">>,  \* losses
  <<"d","e","c","l","i","n","e">>,  \* decline
  <<"d","r","o","p">>,  \* drop
  <<"f","a","l","l">>,  \* fall
  <<"f","e","l","l">>,  \* fell
  <<"d","o","w","n">>,  \* down
  <<"w","e","a","k">>,  \* weak
  <<"m","i","s","s">>,  \* miss
  <<"m","i","s","s","e","d">>,  \* missed
  <<"b","e","l","o","w">>,  \* below
  <<"c","o","n","c","e","r","n">>,  \* concern
  <<"w","o","r","r","y">>,  \* worry
  <<"r","i","s","k">>,  \* risk
  <<"t","h","r","e","a","t">>,  \* threat
  <<"l","a","w","s","u","i","t">>,  \* lawsuit
  <<"i","n","v","e","s","t","i","g","a","t","i","o","n">>,  \* investigation
  <<"f","r","a","u","d">>,  \* fraud
  <<"s","c","a","n","d","a","l">>,  \* scandal
  <<"d","o","w","n","g","r","a","d","e">>,  \* downgrade
  <<"c","u","t">>,  \* cut
  <<"l","a","y","o","f","f">>,  \* layoff
  <<"f","i","r","e">>,  \* fire
  <<"c","l","o","s","u","r","e">>,  \* closure
  <<"b","a","n","k","r","u","p","t","c","y">>,  \* bankruptcy
  <<"d","e","b","t">>,  \* debt
  <<"b","e","a","r","i","s","h">>,  \* bearish
  <<"w","a","r","n","i","n","g">>   \* warning
}

\* The dict keeps the order in which its items are written.
MAJOR_NEWS_TYPES == <<
  [category |-> "contract", keywords |-> <<
     <<"c","o","n","t","r","a","c","t">>,  \* contract
     <<"d","e","a","l">>,  \* deal
     <<"o","r","d","e","r">>,  \* order
     <<"a","w","a","r","d","e","d">>   \* awarded
   >>],
  [category |-> "financial", keywords |-> <<
     <<"p","r","o","f","i","t">>,  \* profit
     <<"r","e","v","e","n","u","e">>,  \* revenue
     <<"e","a","r","n","i","n","g","s">>,  \* earnings
     <<"r","e","s","u","l","t","s">>,  \* results
     <<"q","u","a","r","t","e","r">>   \* quarter
   >>],
  [category |-> "acquisition", keywords |-> <<
     <<"a","c","q","u","i","s","i","t","i","o","n">>,  \* acquisition
     <<"m","e","r","g","e","r">>,  \* merger
     <<"t","a","k","e","o","v","e","r">>,  \* takeover
     <<"b","u","y","o","u","t">>   \* buyout
   >>],
  [category |-> "regulatory", keywords |-> <<
     <<"a","p","p","r","o","v","a","l">>,  \* approval
     <<"l","i","c","e","n","s","e">>,  \* license
     <<"c","o","m","p","l","i","a","n","c","e">>,  \* compliance
     <<"r","e","g","u","l","a","t","i","o","n">>   \* regulation
   >>],
  [category |-> "legal", keywords |-> <<
     <<"l","a","w","s","u","i","t">>,  \* lawsuit
     <<"c","o","u","r","t">>,  \* court
     <<"l","e","g","a","l">>,  \* legal
     <<"c","a","s","e">>,  \* case
     <<"s","e","t","t","l","e","m","e","n","t">>   \* settlement
   >>],
  [category |-> "management", keywords |-> <<
     <<"c","e","o">>,  \* ceo
     <<"c","f","o">>,  \* cfo
     <<"a","p","p","o","i","n","t","m","e","n","t">>,  \* appointment
     <<"r","e","s","i","g","n","a","t","i","o","n">>,  \* resignation
     <<"c","h","a","i","r","m","a","n">>   \* chairman
   >>],
  [category |-> "product", keywords |-> <<
     <<"l","a","u","n","c","h">>,  \* launch
     <<"p","r","o","d","u","c","t">>,  \* product
     <<"s","e","r","v","i","c","e">>,  \* service
     <<"i","n","n","o","v","a","t","i","o","n">>   \* innovation
   >>]
>>

\* str.lower() on the letters of the alphabet; other characters stay.
LowerChar(c) ==
  CASE c = "A" -> "a"
    [] c = "B" -> "b"
    [] c = "C" -> "c"
    [] c = "D" -> "d"
    [] c = "E" -> "e"
    [] c = "F" -> "f"
    [] c = "G" -> "g"
    [] c = "H" -> "h"
    [] c = "I" -> "i"
    [] c = "J" -> "j"
    [] c = "K" -> "k"
    [] c = "L" -> "l"
    [] c = "M" -> "m"
    [] c = "N" -> "n"
    [] c = "O" -> "o"
    [] c = "P" -> "p"
    [] c = "Q" -> "q"
    [] c = "R" -> "r"
    [] c = "S" -> "s"
    [] c = "T" -> "t"
    [] c = "U" -> "u"
    [] c = "V" -> "v"
    [] c = "W" -> "w"
    [] c = "X" -> "x"
    [] c = "Y" -> "y"
    [] c = "Z" -> "z"
    [] OTHER -> c

\* Python values whose type the callers test or trip over carry their type.
Str(s) == [type |-> "str", value |-> s]
Dict(d) == [type |-> "dict", value |-> d]

\* What a call gives: a value, or the exception it raises.
Return(v) == [ok |-> TRUE, value |-> v]
Raise(e) == [ok |-> FALSE, exc |-> e]

\* keyword in text.
Contains(text, keyword) ==
  \E i \in 1 .. (Len(text) - Len(keyword) + 1) :
    \A j \in 1 .. Len(keyword) : text[i + j - 1] = keyword[j]

Lower(text) == [i \in 1 .. Len(text) |-> LowerChar(text[i])]

\* article.get(key, '').
Get(article, key) == IF key \in DOMAIN article THEN article[key] ELSE <<>>

\* text = f"{title} {description}", both lower-cased.
TextOf(article) ==
  Lower(Get(article, "title")) \o <<" ">> \o Lower(Get(article, "description"))

\* Variant: every occurrence of a keyword in the text is a hit.
HitsPerOccurrence(article, keywords) ==
  LET text == TextOf(article)
  IN Cardinality({<<k, i>> \in keywords \X (1 .. Len(text)) :
                    /\ i + Len(k) - 1 <= Len(text)
                    /\ \A j \in 1 .. Len(k) : text[i + j - 1] = k[j]})

\* Lines 57-59 and 62-64: one hit for every keyword the text contains.
Hits(article, keywords) ==
  LET text == TextOf(article)
  IN Cardinality({k \in keywords : Contains(text, k)})

RECURSIVE CountHits(_, _)
CountHits(news_articles, keywords) ==
  IF news_articles = <<>> THEN 0
  ELSE Hits(Head(news_articles), keywords)
         + CountHits(Tail(news_articles), keywords)

\* A score is the fraction num / den with den > 0.
Fraction(n, d) == [num |-> n, den |-> d]

\* score > n / d and score < n / d, for d > 0.
Above(score, n, d) == score.num * d > n * score.den
Below(score, n, d) == score.num * d < n * score.den

AbsScore(score) == Fraction(Abs(score.num), score.den)

analyze_sentiment(news_articles) ==
  IF news_articles = <<>>
  THEN [sentiment_score |-> Fraction(0, 1), positive_count |-> 0,
        negative_count |-> 0]
  ELSE LET positive_count == CountHits(news_articles, POSITIVE_KEYWORDS)
           negative_count == CountHits(news_articles, NEGATIVE_KEYWORDS)
           total == positive_count + negative_count
       IN [sentiment_score |->
             IF total = 0 THEN Fraction(0, 1)
             ELSE Fraction(positive_count - negative_count, total),
           positive_count |-> positive_count,
           negative_count |-> negative_count]

\* any(keyword in text for keyword in keywords).
MatchesAny(text, keywords) ==
  \E j \in 1 .. Len(keywords) : Contains(text, keywords[j])

\* Lines 85-88: the first category, in dict order, one of whose keywords the
\* text contains, if there is one.
FirstCategory(article) ==
  LET text == TextOf(article)
      matching == {i \in 1 .. Len(MAJOR_NEWS_TYPES) :
                     MatchesAny(text, MAJOR_NEWS_TYPES[i].keywords)}
  IN IF matching = {} THEN <<>>
     ELSE <<MAJOR_NEWS_TYPES[CHOOSE i \in matching :
                               \A j \in matching : i <= j].category>>

RECURSIVE categorize_news(_)
categorize_news(news_articles) ==
  IF news_articles = <<>> THEN <<>>
  ELSE FirstCategory(Head(news_articles)) \o categorize_news(Tail(news_articles))

major_categories == {"contract", "acquisition", "regulatory", "legal"}

\* Variant: a keyword of a major category anywhere in an article is enough.
is_major_news_any_keyword(news_articles) ==
  \E a \in 1 .. Len(news_articles), i \in 1 .. Len(MAJOR_NEWS_TYPES) :
    /\ MAJOR_NEWS_TYPES[i].category \in major_categories
    /\ MatchesAny(TextOf(news_articles[a]), MAJOR_NEWS_TYPES[i].keywords)

is_major_news(news_articles) ==
  LET categories == categorize_news(news_articles)
  IN \E i \in 1 .. Len(categories) : categories[i] \in major_categories

CountOf(categories, c) ==
  Cardinality({i \in 1 .. Len(categories) : categories[i] = c})

\* Variant: of the most frequent categories the one seen last.
MostCommonLast(categories) ==
  categories[CHOOSE i \in 1 .. Len(categories) :
    /\ \A j \in 1 .. Len(categories) :
         CountOf(categories, categories[j]) <= CountOf(categories, categories[i])
    /\ \A j \in 1 .. Len(categories) :
         CountOf(categories, categories[j]) = CountOf(categories, categories[i])
           => j <= i]

\* Counter(categories).most_common(1)[0][0]: the counter keeps its keys in
\* the order of their first occurrence and most_common(1) is max() over the
\* items, which gives the first of the items with the highest count.
MostCommon(categories) ==
  categories[CHOOSE i \in 1 .. Len(categories) :
    /\ \A j \in 1 .. Len(categories) :
         CountOf(categories, categories[j]) <= CountOf(categories, categories[i])
    /\ \A j \in 1 .. Len(categories) :
         CountOf(categories, categories[j]) = CountOf(categories, categories[i])
           => i <= j]

\* f"{most_common.title()} News".
TitleNews(c) ==
  CASE c = "contract" -> "Contract News"
    [] c = "financial" -> "Financial News"
    [] c = "acquisition" -> "Acquisition News"
    [] c = "regulatory" -> "Regulatory News"
    [] c = "legal" -> "Legal News"
    [] c = "management" -> "Management News"
    [] c = "product" -> "Product News"

\* Variant: a score of exactly 0 is labelled Positive.
SentimentLabelZeroPositive(score) ==
  IF Above(score, 3, 10) THEN "Highly Positive"
  ELSE IF ~Below(score, 0, 1) THEN "Positive"
  ELSE IF Below(score, -3, 10) THEN "Highly Negative"
  ELSE "Negative"

\* Lines 113-122.
SentimentLabel(score) ==
  IF Above(score, 3, 10) THEN "Highly Positive"
  ELSE IF Above(score, 0, 1) THEN "Positive"
  ELSE IF Below(score, -3, 10) THEN "Highly Negative"
  ELSE IF Below(score, 0, 1) THEN "Negative"
  ELSE "Neutral"

get_news_summary(news_articles) ==
  IF news_articles = <<>> THEN Str("No recent news")
  ELSE LET s == analyze_sentiment(news_articles)
           categories == categorize_news(news_articles)
       IN Dict([sentiment |-> SentimentLabel(s.sentiment_score),
                sentiment_score |-> s.sentiment_score,
                category |-> IF categories # <<>>
                             THEN TitleNews(MostCommon(categories))
                             ELSE "General News",
                is_major |-> is_major_news(news_articles),
                positive_keywords |-> s.positive_count,
                negative_keywords |-> s.negative_count])

\* -------------------------------------------------------- AdvancedFilters
BreakoutWindow == 20
ScoreCap == 100

RECURSIVE MaxHigh(_)
MaxHigh(candles) ==
  IF Len(candles) = 1 THEN candles[1].high
  ELSE LET m == MaxHigh(Tail(candles))
       IN IF Head(candles).high > m THEN Head(candles).high ELSE m

RECURSIVE MinLow(_)
MinLow(candles) ==
  IF Len(candles) = 1 THEN candles[1].low
  ELSE LET m == MinLow(Tail(candles))
       IN IF Head(candles).low < m THEN Head(candles).low ELSE m

\* df[...].tail(20).
Recent(candles) ==
  SubSeq(candles, Len(candles) - BreakoutWindow + 1, Len(candles))

\* Variant: a price equal to 1.02 times the high is a breakout already.
BreakoutAboveInclusive(current_price, recent_high) ==
  current_price * 100 >= recent_high * 102

\* current_price > recent_high * 1.02 and current_price < recent_low * 0.98,
\* in hundredths.
BreakoutAbove(current_price, recent_high) ==
  current_price * 100 > recent_high * 102

BreakdownBelow(current_price, recent_low) ==
  current_price * 100 < recent_low * 98

check_breakout(df, current_quote) ==
  IF df = None \/ Len(df[1]) < BreakoutWindow THEN FALSE
  ELSE \/ BreakoutAbove(current_quote.ltp, MaxHigh(Recent(df[1])))
       \/ BreakdownBelow(current_quote.ltp, MinLow(Recent(df[1])))

\* Variant: the bands include their lower limits.
VolumeScoreInclusive(volume_ratio) ==
  IF volume_ratio >= 50 THEN 30
  ELSE IF volume_ratio >= 30 THEN 25
  ELSE IF volume_ratio >= 20 THEN 20
  ELSE 10

\* Lines 190-198, volume_ratio in tenths.
VolumeScore(volume_ratio) ==
  IF volume_ratio > 50 THEN 30
  ELSE IF volume_ratio > 30 THEN 25
  ELSE IF volume_ratio > 20 THEN 20
  ELSE 10

\* Lines 201-209, price_change in tenths of a percent.
PriceScore(price_change) ==
  IF Abs(price_change) > 80 THEN 25
  ELSE IF Abs(price_change) > 50 THEN 20
  ELSE IF Abs(price_change) > 30 THEN 15
  ELSE 10

\* Lines 213-220, for a summary that has .get.
NewsScore(summary) ==
  (IF summary.is_major THEN 15 ELSE 0)
    + (IF Above(AbsScore(summary.sentiment_score), 1, 2) THEN 10
       ELSE IF Above(AbsScore(summary.sentiment_score), 1, 5) THEN 5
       ELSE 0)

\* Lines 223-229, range_ratio in tenths.
RangeScore(range_ratio) ==
  IF range_ratio > 20 THEN 20
  ELSE IF range_ratio > 15 THEN 15
  ELSE IF range_ratio > 10 THEN 10
  ELSE 0

\* The truth value of a Python object: None and the empty string are false,
\* a dict with keys and a string with characters are true.
NoneValue == [type |-> "NoneType"]

Truthy(v) ==
  /\ v.type # "NoneType"
  /\ v.type = "str" => v.value # ""

\* Variant: the components grow with their inputs and the sum is returned
\* as it is.
calculate_strength_score_unbanded(analysis, news_summary, df) ==
  IF analysis = None THEN Raise("TypeError")
  ELSE IF Truthy(news_summary) /\ news_summary.type = "str"
  THEN Raise("AttributeError")
  ELSE Return(6 * (analysis[1].volume_ratio \div 10)
                + 3 * (Abs(analysis[1].price_change) \div 10)
                + (IF Truthy(news_summary) THEN NewsScore(news_summary.value)
                   ELSE 0))

\* analysis['volume_ratio'] of None raises TypeError (line 190); .get of a
\* string raises AttributeError (line 213). df is not read.
calculate_strength_score(analysis, news_summary, df) ==
  IF analysis = None THEN Raise("TypeError")
  ELSE IF Truthy(news_summary) /\ news_summary.type = "str"
  THEN Raise("AttributeError")
  ELSE LET a == analysis[1]
           score == VolumeScore(a.volume_ratio)
                      + PriceScore(a.price_change)
                      + (IF Truthy(news_summary)
                         THEN NewsScore(news_summary.value) ELSE 0)
                      + RangeScore(IF "range_ratio" \in DOMAIN a
                                   THEN a.range_ratio ELSE 0)
       IN Return(IF score < ScoreCap THEN score ELSE ScoreCap)

\* get_trading_recommendation, called with a signal that is not None.
get_trading_recommendation(signal, strength_score, news_summary) ==
  LET bullish == signal.signal = "BULLISH"
      high == strength_score > 75
  IN [signal_type |-> signal.signal,
      action |-> signal.action,
      strength |-> signal.strength,
      confidence_score |-> strength_score,
      entry |->
        IF bullish
        THEN IF high THEN "Strong Buy - Enter at current levels"
             ELSE "Buy on dips - Wait for minor correction"
        ELSE IF high
             THEN "Strong Sell - Short at current levels (Intraday only)"
             ELSE "Sell on bounce - Wait for minor rally",
      target |->
        IF bullish
        THEN IF high THEN "5-10% upside potential" ELSE "3-7% upside potential"
        ELSE IF high THEN "3-7% downside expected"
             ELSE "2-5% downside expected",
      stop_loss |->
        IF bullish
        THEN IF high THEN "3-4% below entry" ELSE "2-3% below entry"
        ELSE IF high THEN "2% above entry" ELSE "1.5% above entry",
      risk_level |->
        IF strength_score > 80 THEN "Low Risk"
        ELSE IF strength_score > 60 THEN "Medium Risk"
        ELSE "High Risk",
      news_impact |-> news_summary.value.sentiment,
      news_type |-> news_summary.value.category]

\* --------------------------------------------------------------- the sort
\* list.sort(key=volume_ratio, reverse=True): descending and stable.
\* Variant: an entry is put before the entries of equal ratio.
RECURSIVE InsertDescUnstable(_, _)
InsertDescUnstable(s, e) ==
  IF s = <<>> THEN <<e>>
  ELSE IF Head(s).volume_ratio > e.volume_ratio
       THEN <<Head(s)>> \o InsertDescUnstable(Tail(s), e)
       ELSE <<e>> \o s

RECURSIVE InsertDesc(_, _)
InsertDesc(s, e) ==
  IF s = <<>> THEN <<e>>
  ELSE IF Head(s).volume_ratio >= e.volume_ratio
       THEN <<Head(s)>> \o InsertDesc(Tail(s), e)
       ELSE <<e>> \o s

RECURSIVE SortDesc(_)
SortDesc(s) ==
  IF s = <<>> THEN <<>>
  ELSE InsertDesc(SortDesc(SubSeq(s, 1, Len(s) - 1)), s[Len(s)])

\* ------------------------------------------------- inputs of one iteration
\* What the external calls of one iteration give: df is the result of
\* get_historical_data, q of get_current_quote, n the number of articles of
\* fetch_news_for_stock, exc where an unexpected exception is raised inside
\* the try block, if at all.
\* A frame of n candles: the last one has volume lastVol, the others vol;
\* every candle spans rng rupees above a low of 100.
Frame(n, vol, lastVol, rng) ==
  [i \in 1 .. n |-> [volume |-> IF i = n THEN lastVol ELSE vol,
                     high |-> 100 + rng, low |-> 100]]

Frames ==
  {None} \cup {Some(Frame(9, 100, 100, 5)),
               Some(Frame(10, 0, 500, 5)),
               Some(Frame(10, 100, 100, 5))}

Prices == {9, 10, 100, 10000, 10001}

Raises == {"none", "L239", "L248"}

Quote(l, v, c) ==
  Some([ltp |-> l, volume |-> v, change_percent |-> c, prev_close |-> 100])

GoodInput ==
  [df |-> Some(Frame(10, 100, 100, 5)), q |-> Quote(100, 400, -60),
   n |-> 0, exc |-> "none"]

\* Each step of the body is varied over its cases while the others succeed.
Inputs ==
  {[GoodInput EXCEPT !.df = d] : d \in Frames}
    \cup {[GoodInput EXCEPT !.q = None]}
    \cup {[GoodInput EXCEPT !.q = Quote(l, 400, -60)] : l \in Prices}
    \cup {[GoodInput EXCEPT !.exc = e] : e \in Raises}
    \cup {[GoodInput EXCEPT !.q = Quote(100, v, c), !.n = k] :
            v \in {120, 150, 400}, c \in {5, -60}, k \in {0, 2}}

\* Variant: a price equal to a limit is out of range.
PriceInRangeStrict(cfg, quote) == ~(quote.ltp <= cfg.minp \/ quote.ltp >= cfg.maxp)

PriceInRange(cfg, quote) == ~(quote.ltp < cfg.minp \/ quote.ltp > cfg.maxp)

\* The outcome of the loop body for one symbol, lines 217-274.
Outcome(cfg, df, q, news_count, exc) ==
  IF df = None THEN "no_data"
  ELSE IF q = None THEN "no_quote"
  ELSE IF ~PriceInRange(cfg, q[1]) THEN "price_range"
  ELSE IF exc = "L239" THEN "error"
  ELSE LET analysis == analyze_volume_and_price(df, q[1])
       IN IF analysis = None THEN "no_analysis"
          ELSE IF exc = "L248" THEN "error"
          ELSE IF determine_signal(cfg, analysis, news_count) = None
               THEN "no_signal"
          ELSE "appended"

\* Variant: an exception ends the iteration over the universe.
LoopNextAbort(outcome, i) == IF outcome = "error" THEN NSym ELSE i + 1

\* The for loop: whatever the outcome of the body (a continue, the except
\* clause or the normal end), the iterator moves to the next symbol.
LoopNext(outcome, i) == i + 1

\* Variant: an exception leaves scan_stocks and ends the thread.
NextPcRaise(outcome, i) ==
  IF outcome = "error" THEN "done" ELSE IF i < NSym THEN "L216" ELSE "L277"

\* Variant: the flag is reset as soon as one symbol has been taken.
NextPcEarly(outcome, i) == "L279"

\* Where the thread goes after the body: back to the head of the loop, or to
\* the sort once the universe is exhausted. The except clause continues.
NextPc(outcome, i) == IF i < NSym THEN "L216" ELSE "L277"

\* stock_data, lines 251-263 (the fields the properties read).
StockData(symbol, analysis, n) ==
  [symbol |-> symbol, volume_ratio |-> analysis.volume_ratio, ord |-> n]

\* ---------------------------------------------------------------- states
Objects == 1 .. Len(is_scanning)

Active == {"L203", "L216", "L277", "L279", "L286"}

Running(w) == pc[w] \in Active

InitScanner ==
  /\ news_screener = NoScreener
  /\ is_scanning = <<>>
  /\ screened_stocks = <<>>
  /\ pc = [w \in Workers |-> "idle"]
  /\ self = [w \in Workers |-> NoScreener]
  /\ idx = [w \in Workers |-> 0]
  /\ processed = [w \in Workers |-> <<>>]
  /\ found = [w \in Workers |-> {}]
  /\ qualified = [w \in Workers |-> {}]
  /\ caught = FALSE
  /\ raced = {}
  /\ ord = 0
  /\ last = "none"

\* The process starts with the default thresholds and no screener.
NoCalls == dsIn = None /\ dsOut = None /\ call = None /\ ret = None

NoThread == 0

\* The globals of app.py and socket_worker.py at start-up, and an empty
\* session.
InitApp ==
  /\ session = None
  /\ SCREENER_RESULTS = <<>>
  /\ tick = None
  /\ bot_thread = NoThread
  /\ threads = <<>>
  /\ hook = [r \in Requests |-> "idle"]

Init ==
  /\ environ = NoEnv
  /\ config = DefaultConfig
  /\ InitScanner
  /\ NoCalls
  /\ InitApp

\* FyersNewsScreener.__init__ bound to the app.py global.
Construct ==
  /\ Len(is_scanning) < MaxObjects
  /\ news_screener' = Len(is_scanning) + 1
  /\ is_scanning' = Append(is_scanning, FALSE)
  /\ screened_stocks' = Append(screened_stocks, <<>>)

workerVars == <<pc, self, idx, processed, found, qualified, caught, raced, ord>>

\* POST /api/screener/initialize.
InitializeScreener(auth) ==
  /\ IF auth
     THEN Construct
     ELSE UNCHANGED <<news_screener, is_scanning, screened_stocks>>
  /\ UNCHANGED <<config, last, dsIn, dsOut, call, ret>>
  /\ UNCHANGED workerVars
  /\ UNCHANGED appVars

\* The first thread that has not been started yet.
FreeWorker == CHOOSE w \in Workers : pc[w] = "idle" /\ \A v \in 1 .. (w - 1) : pc[v] # "idle"

\* Variant: the request does not look at the flag.
NeverScanning == FALSE

\* Line 133 of app.py: the check of the flag of the current object.
AlreadyScanning == is_scanning[news_screener]

\* POST /api/screener/scan, with the before_request hook that constructs the
\* screener on the first authenticated request.
StartScan(auth) ==
  /\ IF news_screener = NoScreener
     THEN IF auth
          THEN /\ Construct
               /\ \E w \in Workers : pc[w] = "idle"
               /\ pc' = [pc EXCEPT ![FreeWorker] = "L139"]
               /\ last' = "200 Scan started"
          ELSE /\ last' = "401 Screener not initialized"
               /\ UNCHANGED <<news_screener, is_scanning, screened_stocks, pc>>
     ELSE IF AlreadyScanning
          THEN /\ last' = "400 Scan already in progress"
               /\ UNCHANGED <<news_screener, is_scanning, screened_stocks, pc>>
          ELSE /\ \E w \in Workers : pc[w] = "idle"
               /\ pc' = [pc EXCEPT ![FreeWorker] = "L139"]
               /\ last' = "200 Scan started"
               /\ UNCHANGED <<news_screener, is_scanning, screened_stocks>>
  /\ UNCHANGED <<config, dsIn, dsOut, call, ret>>
  /\ UNCHANGED <<self, idx, processed, found, qualified, caught, raced, ord>>
  /\ UNCHANGED appVars

\* run_scan calls news_screener.scan_stocks(): the thread binds the current
\* object and executes line 202.
WorkerBegin(w) ==
  /\ pc[w] = "L139"
  /\ LET o == news_screener
         others == {v \in Workers : Running(v) /\ self[v] = o}
     IN /\ self' = [self EXCEPT ![w] = o]
        /\ is_scanning' = [is_scanning EXCEPT ![o] = TRUE]
        /\ raced' = IF others = {} THEN raced ELSE raced \cup others \cup {w}
  /\ pc' = [pc EXCEPT ![w] = "L203"]
  /\ UNCHANGED <<config, news_screener, screened_stocks, idx, processed,
                 found, qualified, caught, ord, last, dsIn, dsOut, call, ret>>
  /\ UNCHANGED appVars

\* Line 203: self.screened_stocks = [].
WorkerClear(w) ==
  /\ pc[w] = "L203"
  /\ screened_stocks' = [screened_stocks EXCEPT ![self[w]] = <<>>]
  /\ pc' = [pc EXCEPT ![w] = "L216"]
  /\ UNCHANGED <<config, news_screener, is_scanning, self, idx, processed,
                 found, qualified, caught, raced, ord, last, dsIn, dsOut, call, ret>>
  /\ UNCHANGED appVars

\* The conditions under which a symbol is to have an entry.
Qualifies(cfg, df, q, news_count, exc) ==
  /\ df # None
  /\ q # None
  /\ cfg.minp <= q[1].ltp /\ q[1].ltp <= cfg.maxp
  /\ Len(df[1]) >= MinCandles /\ exc # "L239"
  /\ determine_signal(cfg, analyze_volume_and_price(df, q[1]), news_count) # None
  /\ exc # "L248"

\* One iteration of the for loop, lines 216-274.
ScanSymbol(w) ==
  /\ pc[w] = "L216"
  /\ idx[w] < NSym
  /\ \E in \in Inputs :
       LET symbol == idx[w] + 1
           df == in.df
           q == in.q
           n == in.n
           exc == in.exc
           out == Outcome(config, df, q, n, exc)
           i == LoopNext(out, idx[w])
       IN /\ IF out = "appended"
             THEN /\ screened_stocks' =
                       [screened_stocks EXCEPT ![self[w]] =
                          Append(@, StockData(symbol,
                                   analyze_volume_and_price(df, q[1])[1], ord + 1))]
                  /\ found' = [found EXCEPT ![w] = @ \cup {symbol}]
                  /\ ord' = ord + 1
             ELSE UNCHANGED <<screened_stocks, found, ord>>
          /\ caught' = (caught \/ out = "error")
          /\ qualified' = IF Qualifies(config, df, q, n, exc)
                          THEN [qualified EXCEPT ![w] = @ \cup {symbol}]
                          ELSE qualified
          /\ processed' = [processed EXCEPT ![w] = Append(@, symbol)]
          /\ idx' = [idx EXCEPT ![w] = i]
          /\ pc' = [pc EXCEPT ![w] = NextPc(out, i)]
  /\ UNCHANGED <<config, news_screener, is_scanning, self, raced, last,
                 dsIn, dsOut, call, ret>>
  /\ UNCHANGED appVars

\* Line 277: the sort of the result list.
WorkerSort(w) ==
  /\ pc[w] = "L277"
  /\ screened_stocks' = [screened_stocks EXCEPT ![self[w]] = SortDesc(@)]
  /\ pc' = [pc EXCEPT ![w] = "L279"]
  /\ UNCHANGED <<config, news_screener, is_scanning, self, idx, processed,
                 found, qualified, caught, raced, ord, last, dsIn, dsOut, call, ret>>
  /\ UNCHANGED appVars

\* Line 279: self.is_scanning = False.
WorkerIdle(w) ==
  /\ pc[w] = "L279"
  /\ is_scanning' = [is_scanning EXCEPT ![self[w]] = FALSE]
  /\ pc' = [pc EXCEPT ![w] = "L286"]
  /\ UNCHANGED <<config, news_screener, screened_stocks, self, idx, processed,
                 found, qualified, caught, raced, ord, last, dsIn, dsOut, call, ret>>
  /\ UNCHANGED appVars

\* Line 286: return self.screened_stocks; run_scan emits it and ends.
WorkerReturn(w) ==
  /\ pc[w] = "L286"
  /\ pc' = [pc EXCEPT ![w] = "done"]
  /\ UNCHANGED <<config, news_screener, is_scanning, screened_stocks, self,
                 idx, processed, found, qualified, caught, raced, ord, last,
                 dsIn, dsOut, call, ret>>
  /\ UNCHANGED appVars

WorkerStep(w) ==
  \/ WorkerBegin(w)
  \/ WorkerClear(w)
  \/ ScanSymbol(w)
  \/ WorkerSort(w)
  \/ WorkerIdle(w)
  \/ WorkerReturn(w)

Next ==
  \/ \E auth \in BOOLEAN : InitializeScreener(auth)
  \/ \E auth \in BOOLEAN : StartScan(auth)
  \/ \E w \in Workers : WorkerStep(w)

Spec == Init /\ [][Next]_vars

\* Every started thread is scheduled until it ends.
FairSpec == Spec /\ \A w \in Workers : WF_vars(WorkerStep(w))

\* GET /api/screener/results, what a reader is given.
get_results ==
  IF news_screener = NoScreener
  THEN [is_scanning |-> FALSE, stocks |-> <<>>, count |-> 0]
  ELSE [is_scanning |-> is_scanning[news_screener],
        stocks |-> screened_stocks[news_screener],
        count |-> Len(screened_stocks[news_screener])]

\* GET /api/screener/status, what a reader is given.
get_status ==
  [initialized |-> news_screener # NoScreener,
   is_scanning |-> IF news_screener # NoScreener
                   THEN is_scanning[news_screener] ELSE FALSE]

\* ------------------------------------------------- the tick broadcaster
\* check_screener_signals, lines 166-191 of socket_worker.py: the first
\* stored result for the symbol, or None.
check_screener_signals(symbol) ==
  LET hits == {i \in 1 .. Len(SCREENER_RESULTS) :
                 SCREENER_RESULTS[i].symbol = symbol}
  IN IF hits = {} THEN None
     ELSE Some(SCREENER_RESULTS[CHOOSE i \in hits : \A j \in hits : i <= j])

\* One tick of the simulator for stock s, lines 354-378: the tick is emitted
\* with the stored result for s, if there is one. The simulator thread is
\* started by the hook of the first request. Nothing in app.py calls
\* update_screener_results or set_news_screener, and the periodic scan that
\* calls the former runs only when NEWS_SCREENER is set (lines 239 and 341):
\* no step of the application writes SCREENER_RESULTS.
Tick(s) ==
  /\ last # "none"
  /\ tick' = Some([symbol |-> s, screener_signal |-> check_screener_signals(s)])
  /\ UNCHANGED <<config, dsIn, dsOut, call, ret, environ, session,
                 SCREENER_RESULTS, bot_thread, threads, hook>>
  /\ UNCHANGED scanVars

TickNext ==
  \/ Next
  \/ \E s \in Universe : Tick(s)

TickSpec == Init /\ [][TickNext]_vars

\* ------------------------------------------- determine_signal on its own
SignalRatios == {0, 12, 15, 16, 20, 30, 31, 40}
SignalChanges == {-201, -200, -60, -30, -10, -9, 0, 9, 10, 29, 60, 150, 151, 200, 201}
SignalNews == {0, 1, 2}

SignalInit ==
  /\ config \in Configs
  /\ environ \in Envs
  /\ config = LoadConfig(environ)
  /\ InitScanner
  /\ NoCalls
  /\ InitApp

\* One call of determine_signal(analysis, news_count).
DetermineSignal ==
  /\ \E a \in {None} \cup {Some([volume_ratio |-> v, price_change |-> c]) :
                               v \in SignalRatios, c \in SignalChanges},
        n \in SignalNews :
       /\ dsIn' = Some([analysis |-> a, news_count |-> n])
       /\ dsOut' = determine_signal(config, a, n)
  /\ UNCHANGED <<config, call, ret>>
  /\ UNCHANGED scanVars
  /\ UNCHANGED appVars

SignalSpec == SignalInit /\ [][DetermineSignal]_vars

\* ------------------------------------- the analysis functions on their own
\* Articles as the news provider gives them; a key may be missing.
\* title: Wins order
WinsOrder ==
  [title |->
     <<"W","i","n","s"," ","o","r","d","e","r">>]

\* title: Heavy losses
\* description: weak
HeavyLosses ==
  [title |->
     <<"H","e","a","v","y"," ","l","o","s","s","e","s">>,
   description |->
     <<"w","e","a","k">>]

\* title: Profit
\* description: lawsuit fraud
ProfitSuit ==
  [title |->
     <<"P","r","o","f","i","t">>,
   description |->
     <<"l","a","w","s","u","i","t"," ","f","r","a","u","d">>]

\* title: Showcase
\* description: (empty)
Showcase ==
  [title |->
     <<"S","h","o","w","c","a","s","e">>,
   description |->
     <<>>]

\* title: New CEO
NewCeo ==
  [title |->
     <<"N","e","w"," ","C","E","O">>]

\* title: Big win
\* description: win
BigWin ==
  [title |->
     <<"B","i","g"," ","w","i","n">>,
   description |->
     <<"w","i","n">>]

\* description: weak
Weak ==
  [description |->
     <<"w","e","a","k">>]

\* title: Merger
Merger ==
  [title |->
     <<"M","e","r","g","e","r">>]

\* An article with neither title nor description.
Blank == [source |-> "wire"]

\* title: contract deal win awarded growth profit surge gain record high expand dividend beat
\* description: decline drop fall fell down weak miss
ThirteenUp ==
  [title |->
     <<"c","o","n","t","r","a","c","t"," ","d","e","a","l"," ","w","i","n",
       " ","a","w","a","r","d","e","d"," ","g","r","o","w","t","h"," ","p",
       "r","o","f","i","t"," ","s","u","r","g","e"," ","g","a","i","n"," ",
       "r","e","c","o","r","d"," ","h","i","g","h"," ","e","x","p","a","n",
       "d"," ","d","i","v","i","d","e","n","d"," ","b","e","a","t">>,
   description |->
     <<"d","e","c","l","i","n","e"," ","d","r","o","p"," ","f","a","l","l",
       " ","f","e","l","l"," ","d","o","w","n"," ","w","e","a","k"," ","m",
       "i","s","s">>]

\* title: decline drop fall fell down weak miss concern worry risk threat fraud cut
\* description: deal win growth profit surge gain beat
ThirteenDown ==
  [title |->
     <<"d","e","c","l","i","n","e"," ","d","r","o","p"," ","f","a","l","l",
       " ","f","e","l","l"," ","d","o","w","n"," ","w","e","a","k"," ","m",
       "i","s","s"," ","c","o","n","c","e","r","n"," ","w","o","r","r","y",
       " ","r","i","s","k"," ","t","h","r","e","a","t"," ","f","r","a","u",
       "d"," ","c","u","t">>,
   description |->
     <<"d","e","a","l"," ","w","i","n"," ","g","r","o","w","t","h"," ","p",
       "r","o","f","i","t"," ","s","u","r","g","e"," ","g","a","i","n"," ",
       "b","e","a","t">>]

Articles ==
  {WinsOrder, HeavyLosses, ProfitSuit, Showcase, NewCeo, BigWin,
   Weak, Merger, Blank, ThirteenUp, ThirteenDown}

MaxArticles == 2

\* The lists of at most n articles.
RECURSIVE ListsOf(_, _)
ListsOf(S, n) ==
  IF n = 0 THEN {<<>>}
  ELSE ListsOf(S, n - 1)
         \cup {Append(l, a) : l \in {x \in ListsOf(S, n - 1) : Len(x) = n - 1},
                              a \in S}

\* Articles of three categories, for the longer lists.
CategoryArticles == {WinsOrder, Showcase, NewCeo}

ArticleLists ==
  ListsOf(Articles, MaxArticles) \cup ListsOf(CategoryArticles, MaxArticles + 1)

\* One candle, and a frame of n candles whose candle 20 from the end is
\* first, the candles before it old and the candles after it rest.
Candle(h, l) == [volume |-> 100, high |-> h, low |-> l]

BreakoutFrame(n, old, first, rest) ==
  [i \in 1 .. n |-> IF i < n - BreakoutWindow + 1 THEN old
                    ELSE IF i = n - BreakoutWindow + 1 THEN first
                    ELSE rest]

BreakoutFrames ==
  {None} \cup {Some(BreakoutFrame(n, Candle(200, 50), first, Candle(100, 100))) :
                 n \in {1, 19, 20, 21},
                 first \in {Candle(100, 100), Candle(110, 90)}}

BreakoutPrices == {40, 49, 87, 88, 89, 97, 98, 100, 102, 103, 112, 113, 205}

ScoreRatios == {10, 20, 21, 30, 31, 50, 51, 10000}
ScoreChanges == {-500, -81, -80, -31, 0, 30, 31, 50, 51, 80, 81, 500}
ScoreRanges == {0, 10, 11, 15, 16, 20, 21}

ScoreSentiments ==
  {Fraction(n, d) : n \in {-1, 0, 1}, d \in {1, 2, 4, 5}}
    \cup {Fraction(3, 5), Fraction(-3, 5)}

\* An AnalysisResult with and without the range_ratio key.
ScoreAnalyses ==
  {Some([volume_ratio |-> v, price_change |-> c, range_ratio |-> r]) :
     v \in ScoreRatios, c \in ScoreChanges, r \in ScoreRanges}
    \cup {Some([volume_ratio |-> v, price_change |-> 60]) : v \in ScoreRatios}
    \cup {None}

\* What a caller may pass as news_summary: a summary, the string that
\* get_news_summary gives for no articles, or nothing.
ScoreSummaries ==
  {Dict([sentiment_score |-> s, is_major |-> m]) :
     s \in ScoreSentiments, m \in BOOLEAN}
    \cup {Str("No recent news"), NoneValue}

AnalysisFrames ==
  {None} \cup {Some(Frame(n, vol, lastVol, rng)) :
                 n \in {9, 10, 11}, vol \in {0, 100}, lastVol \in {0, 500},
                 rng \in {0, 5}}

AnalysisQuotes ==
  {[ltp |-> l, volume |-> v, change_percent |-> -60, prev_close |-> 100] :
     l \in {100, 110}, v \in {0, 400}}

\* ------------------------------------ the loop body with all that it builds
\* s[:n].
Top(s, n) == SubSeq(s, 1, IF Len(s) < n THEN Len(s) ELSE n)

\* The k articles of an answer of the news provider, most recent first.
Headlines(k) == [i \in 1 .. k |-> [title |-> i]]

\* What requests.get gives at line 131: an exception (a timeout, a refused
\* connection) or a response with its status code and the articles of its body.
NewsResponses ==
  {Raise("Timeout"), Raise("ConnectionError")}
    \cup {Return([status_code |-> 200, articles |-> Headlines(k)]) :
            k \in {0, 1, 2, 3, 5, 6}}
    \cup {Return([status_code |-> c, articles |-> <<>>]) : c \in {401, 500}}

\* Variant: a failure of the provider is raised to the caller.
fetch_news_propagating(response) ==
  IF ~response.ok THEN Raise(response.exc)
  ELSE IF response.value.status_code = 200
       THEN Return(Top(response.value.articles, 5))
       ELSE Raise("HTTPError")

\* fetch_news_for_stock, lines 115-139: the except clause and a status
\* other than 200 both return the empty list.
fetch_news_for_stock(response) ==
  IF ~response.ok THEN Return(<<>>)
  ELSE IF response.value.status_code = 200
       THEN Return(Top(response.value.articles, 5))
       ELSE Return(<<>>)

\* A symbol of the universe as its parts, "NSE:" name "-EQ".
Symbol(name) == <<"NSE:", name, "-EQ">>

\* symbol.replace('NSE:', '').replace('-EQ', '').
CleanName(symbol) == SelectSeq(symbol, LAMBDA part : part \notin {"NSE:", "-EQ"})

\* stock_data, lines 251-263, with every key it is given.
stock_data(symbol, current_quote, analysis, signal, news, now) ==
  [symbol |-> symbol,
   name |-> CleanName(symbol),
   ltp |-> current_quote.ltp,
   price_change |-> analysis.price_change,
   volume_ratio |-> analysis.volume_ratio,
   signal |-> signal.signal,
   action |-> signal.action,
   strength |-> signal.strength,
   news_count |-> Len(news),
   news |-> Top(news, 3),
   timestamp |-> now]

\* The body reaches line 245 with these inputs.
ReachesNews(cfg, df, q, exc) ==
  LET o == Outcome(cfg, df, q, 0, exc)
  IN o \in {"no_signal", "appended"} \/ (o = "error" /\ exc = "L248")

\* The calls the body makes for one symbol, in order, for each way it ends:
\* the continue statements of lines 225, 231, 236 and 242 and the except
\* clause of line 272 go to the next symbol from where they are.
Steps(outcome, exc, fetched) ==
  LET upToQuote == <<"get_historical_data", "get_current_quote">>
      upToAnalysis == upToQuote \o <<"analyze_volume_and_price">>
      upToSignal == upToAnalysis \o <<"fetch_news_for_stock", "determine_signal">>
  IN CASE outcome = "no_data" -> <<"get_historical_data">>
       [] outcome = "no_quote" -> upToQuote
       [] outcome = "price_range" -> upToQuote
       [] outcome = "no_analysis" -> upToAnalysis
       [] outcome = "error" ->
            IF exc = "L239" THEN upToAnalysis
            ELSE IF ~fetched THEN upToAnalysis \o <<"fetch_news_for_stock">>
            ELSE upToSignal
       [] outcome = "no_signal" -> upToSignal \o <<"sleep">>
       [] outcome = "appended" -> upToSignal \o <<"append", "sleep">>

\* One iteration of the loop, lines 216-274: how it ends, the entry it
\* appends if any, and the calls it makes.
LoopBody(cfg, symbol, df, q, response, exc, now) ==
  LET news == fetch_news_for_stock(response)
      outcome == IF ReachesNews(cfg, df, q, exc)
                 THEN IF news.ok
                      THEN Outcome(cfg, df, q, Len(news.value), exc)
                      ELSE "error"
                 ELSE Outcome(cfg, df, q, 0, exc)
  IN [outcome |-> outcome,
      stock_data |->
        IF outcome = "appended"
        THEN LET analysis == analyze_volume_and_price(df, q[1])
                 signal == determine_signal(cfg, analysis, Len(news.value))
             IN Some(stock_data(symbol, q[1], analysis[1], signal[1],
                                news.value, now))
        ELSE None,
      calls |-> Steps(outcome, exc, news.ok)]

ScanQuotes ==
  {None, Quote(9, 400, -60)} \cup {Some(q) : q \in AnalysisQuotes}

\* The calls that are made, each with its arguments.
Call(fn, args) == Some([fn |-> fn, args |-> args])

ListCalls(fn) == {Call(fn, [news_articles |-> l]) : l \in ArticleLists}

AnalyzerCalls ==
  ListCalls("analyze_sentiment") \cup ListCalls("categorize_news")
    \cup ListCalls("is_major_news") \cup ListCalls("get_news_summary")
    \cup {Call("check_breakout",
                [df |-> df,
                 current_quote |-> [ltp |-> p, volume |-> 400,
                                    change_percent |-> -60, prev_close |-> 100]]) :
            df \in BreakoutFrames, p \in BreakoutPrices}
    \cup {Call("calculate_strength_score", [analysis |-> a, news_summary |-> s]) :
            a \in ScoreAnalyses, s \in ScoreSummaries}
    \cup {Call("analyze_volume_and_price", [df |-> df, current_quote |-> q]) :
            df \in AnalysisFrames, q \in AnalysisQuotes}
    \cup {Call("fetch_news_for_stock", [response |-> r]) : r \in NewsResponses}
    \cup {Call("scan_stocks",
                [symbol |-> Symbol("TCS"), df |-> df, current_quote |-> q,
                 response |-> r, exc |-> e]) :
            df \in AnalysisFrames, q \in ScanQuotes, r \in NewsResponses,
            e \in Raises}

AnalyzerInit ==
  /\ environ = NoEnv
  /\ config = DefaultConfig
  /\ InitScanner
  /\ InitApp
  /\ dsIn = None
  /\ dsOut = None
  /\ call \in AnalyzerCalls
  /\ ret = None

\* The call of fn has not been made yet.
Pending(fn) == call # None /\ ret = None /\ call[1].fn = fn

\* The call gives result and changes nothing.
Gives(result) ==
  /\ ret' = Some(result)
  /\ UNCHANGED <<config, dsIn, dsOut, call>>
  /\ UNCHANGED scanVars
  /\ UNCHANGED appVars

AnalyzeSentiment ==
  /\ Pending("analyze_sentiment")
  /\ Gives(analyze_sentiment(call[1].args.news_articles))

CategorizeNews ==
  /\ Pending("categorize_news")
  /\ Gives(categorize_news(call[1].args.news_articles))

IsMajorNews ==
  /\ Pending("is_major_news")
  /\ Gives(is_major_news(call[1].args.news_articles))

GetNewsSummary ==
  /\ Pending("get_news_summary")
  /\ Gives(get_news_summary(call[1].args.news_articles))

CheckBreakout ==
  /\ Pending("check_breakout")
  /\ Gives(check_breakout(call[1].args.df, call[1].args.current_quote))

CalculateStrengthScore ==
  /\ Pending("calculate_strength_score")
  /\ Gives(calculate_strength_score(call[1].args.analysis,
                                    call[1].args.news_summary, None))

AnalyzeVolumeAndPrice ==
  /\ Pending("analyze_volume_and_price")
  /\ Gives(analyze_volume_and_price(call[1].args.df,
                                    call[1].args.current_quote))

\* The body of the scan loop for one symbol, with the results of its fetches.
ScanOne ==
  /\ Pending("scan_stocks")
  /\ Gives(LoopBody(config, call[1].args.symbol, call[1].args.df,
                    call[1].args.current_quote, call[1].args.response,
                    call[1].args.exc, "now"))

FetchNewsForStock ==
  /\ Pending("fetch_news_for_stock")
  /\ Gives(fetch_news_for_stock(call[1].args.response))

AnalyzerNext ==
  \/ AnalyzeSentiment
  \/ CategorizeNews
  \/ IsMajorNews
  \/ GetNewsSummary
  \/ CheckBreakout
  \/ CalculateStrengthScore
  \/ AnalyzeVolumeAndPrice
  \/ ScanOne
  \/ FetchNewsForStock

AnalyzerSpec == AnalyzerInit /\ [][AnalyzerNext]_vars

\* --------------------------------- GET /api/screener/analyze/<symbol>
\* What the fetches of the handler give: the frame of get_historical_data,
\* the quote of get_current_quote, the articles of fetch_news_for_stock, and
\* corr, the outcome of the pandas correlation test on the frame.
DetailFrames ==
  {None} \cup {Some(Frame(n, 100, 100, 5)) : n \in {4, 9, 10, 21}}

DetailQuotes ==
  {None, Quote(100, 400, -60), Quote(110, 400, 60), Quote(100, 120, 5)}

DetailNews == {<<>>, <<WinsOrder>>, <<ProfitSuit, NewCeo>>}

DetailCalls ==
  {Call("analyze_stock_detail", [df |-> df, q |-> q, news |-> news, corr |-> c]) :
     df \in DetailFrames, q \in DetailQuotes, news \in DetailNews,
     c \in BOOLEAN}

\* check_price_volume_correlation: False under 5 candles, else the test.
check_price_volume_correlation(df, corr) ==
  IF df = None \/ Len(df[1]) < 5 THEN FALSE ELSE corr

\* news[:5].
FirstFive(news) == SubSeq(news, 1, IF Len(news) < 5 THEN Len(news) ELSE 5)

\* The response of the handler, lines 191-243: an exception raised in the
\* try block is answered 500 with its text.
analyze_stock_detail(df, q, news, corr) ==
  IF news_screener = NoScreener
  THEN [status |-> 401, error |-> "Screener not initialized"]
  ELSE IF df = None
  THEN [status |-> 404, error |-> "Failed to fetch stock data"]
  ELSE IF q = None
  THEN [status |-> 404, error |-> "Failed to fetch current quote"]
  ELSE LET analysis == analyze_volume_and_price(df, q[1])
           news_summary == get_news_summary(news)
           strength_score == calculate_strength_score(analysis, news_summary, df)
           signal == determine_signal(config, analysis, Len(news))
       IN IF ~strength_score.ok
          THEN [status |-> 500, error |-> strength_score.exc]
          ELSE [status |-> 200,
                current_quote |-> q[1],
                analysis |-> analysis[1],
                news |-> FirstFive(news),
                news_summary |-> news_summary,
                signal |-> signal,
                strength_score |-> strength_score.value,
                recommendation |->
                  IF signal # None
                  THEN Some(get_trading_recommendation(
                              signal[1], strength_score.value, news_summary))
                  ELSE None,
                has_price_volume_correlation |->
                  check_price_volume_correlation(df, corr),
                is_breakout |-> check_breakout(df, q[1])]

DetailInit ==
  /\ environ = NoEnv
  /\ config = DefaultConfig
  /\ InitScanner
  /\ InitApp
  /\ dsIn = None
  /\ dsOut = None
  /\ call \in DetailCalls
  /\ ret = None

AnalyzeStockDetail ==
  /\ Pending("analyze_stock_detail")
  /\ Gives(analyze_stock_detail(call[1].args.df, call[1].args.q,
                                call[1].args.news, call[1].args.corr))

\* Login constructs the screener; the detail request may come before or
\* after it.
DetailNext ==
  \/ \E auth \in BOOLEAN : InitializeScreener(auth)
  \/ AnalyzeStockDetail

DetailSpec == DetailInit /\ [][DetailNext]_vars

\* ------------------------------- the detail request next to the scans
\* What the fetches give to a detail request: one input for each way the
\* handler ends once the screener exists (404, 404, 500, 200); with 9
\* candles there is no analysis and the scorer raises TypeError.
DetailInputs ==
  {[df |-> None, q |-> Quote(100, 400, -60), news |-> <<Blank>>],
   [df |-> Some(Frame(10, 100, 100, 5)), q |-> None, news |-> <<Blank>>],
   [df |-> Some(Frame(9, 100, 100, 5)), q |-> Quote(100, 400, -60),
    news |-> <<Blank>>],
   [df |-> Some(Frame(10, 100, 100, 5)), q |-> Quote(100, 400, -60),
    news |-> <<Blank>>]}

\* The status of a response and, for an error, its text.
StatusLine(response) ==
  CASE response.status = 200 -> "200 analysis"
    [] response.status = 401 -> "401 analyze: Screener not initialized"
    [] response.status = 404 ->
         IF response.error = "Failed to fetch stock data"
         THEN "404 Failed to fetch stock data"
         ELSE "404 Failed to fetch current quote"
    [] response.status = 500 ->
         IF response.error = "AttributeError"
         THEN "500 AttributeError" ELSE "500 TypeError"

\* Variant: the handler goes through the bookkeeping of a scan, emptying the
\* result list of the screener and resetting its flag.
DetailEffectScan ==
  IF news_screener = NoScreener
  THEN UNCHANGED <<news_screener, is_scanning, screened_stocks>>
  ELSE /\ screened_stocks' = [screened_stocks EXCEPT ![news_screener] = <<>>]
       /\ is_scanning' = [is_scanning EXCEPT ![news_screener] = FALSE]
       /\ UNCHANGED news_screener

\* What the handler does to the screener, lines 196-215 of app.py: it calls
\* get_historical_data, get_current_quote, analyze_volume_and_price,
\* fetch_news_for_stock and determine_signal, none of which assigns an
\* attribute of the object.
DetailEffect == UNCHANGED <<news_screener, is_scanning, screened_stocks>>

\* GET /api/screener/analyze/<symbol>, handled at any moment of a scan.
AnalyzeDuringScan ==
  /\ DetailEffect
  /\ UNCHANGED <<config, dsIn, dsOut, call, ret>>
  /\ UNCHANGED workerVars
  /\ UNCHANGED appVars
  /\ \E in \in DetailInputs :
       last' = StatusLine(analyze_stock_detail(in.df, in.q, in.news, TRUE))

\* Scan requests, the scan threads and detail requests, in any order.
ScanDetailNext ==
  \/ \E auth \in BOOLEAN : StartScan(auth)
  \/ \E w \in Workers : WorkerStep(w)
  \/ AnalyzeDuringScan

ScanDetailSpec == Init /\ [][ScanDetailNext]_vars

\* ------------------------------------------- /api/screener/settings
\* The JSON bodies a client posts: the six thresholds.
SettingsBodies ==
  {[volume_threshold |-> v, price_change_min |-> c, price_change_max |-> 200,
    lookback_days |-> 5, min_price |-> p, max_price |-> 10000] :
     v \in {15, 20, 25}, c \in {10, 30}, p \in {10, 20, 50}}

SettingsEnvs == Envs \cup {RangeEnv}

\* The GET branch, lines 248-256: each value is read from the environment
\* with a default of the handler's own.
get_settings(env) ==
  [volume_threshold |-> getenv(env, "VOLUME_SURGE_THRESHOLD", 20),
   price_change_min |-> getenv(env, "PRICE_CHANGE_MIN", 30),
   price_change_max |-> getenv(env, "PRICE_CHANGE_MAX", 150),
   lookback_days |-> getenv(env, "LOOKBACK_DAYS", 5),
   min_price |-> getenv(env, "MIN_PRICE", 20),
   max_price |-> getenv(env, "MAX_PRICE", 5000)]

SettingsInit ==
  /\ environ \in SettingsEnvs
  /\ config = LoadConfig(environ)
  /\ InitScanner
  /\ NoCalls
  /\ InitApp

\* GET /api/screener/settings.
SettingsGet ==
  /\ call' = Call("GET", <<>>)
  /\ ret' = Some(get_settings(environ))
  /\ UNCHANGED <<config, dsIn, dsOut, environ, session, SCREENER_RESULTS,
                 tick, bot_thread, threads, hook>>
  /\ UNCHANGED scanVars

\* POST /api/screener/settings, lines 259-261: the body is put in the
\* session and echoed.
SettingsPost ==
  /\ \E data \in SettingsBodies :
       /\ call' = Call("POST", data)
       /\ session' = Some(data)
       /\ ret' = Some([message |-> "Settings updated", settings |-> data])
  /\ UNCHANGED <<config, dsIn, dsOut, environ, SCREENER_RESULTS, tick,
                 bot_thread, threads, hook>>
  /\ UNCHANGED scanVars

SettingsNext ==
  \/ SettingsGet
  \/ SettingsPost

SettingsSpec == SettingsInit /\ [][SettingsNext]_vars

\* ------------------------------------------------------ start_bot_once
\* The before_request hook, lines 301-306 of app.py, run by each request on
\* its own thread of the server. Nothing orders the three lines of one
\* request against those of another.
botFrame == <<config, dsIn, dsOut, call, ret, environ, session,
              SCREENER_RESULTS, tick>>

\* Line 304: if bot_thread is None.
HookCheck(r) ==
  /\ hook[r] = "idle"
  /\ hook' = [hook EXCEPT ![r] = IF bot_thread = NoThread THEN "L305" ELSE "done"]
  /\ UNCHANGED <<bot_thread, threads>>
  /\ UNCHANGED botFrame
  /\ UNCHANGED scanVars

\* Line 305: bot_thread = threading.Thread(target=start_bot, daemon=True).
HookCreate(r) ==
  /\ hook[r] = "L305"
  /\ threads' = Append(threads, FALSE)
  /\ bot_thread' = Len(threads) + 1
  /\ hook' = [hook EXCEPT ![r] = "L306"]
  /\ UNCHANGED botFrame
  /\ UNCHANGED scanVars

\* Line 306: bot_thread.start(), on the Thread the global names at that
\* moment; start() on a started Thread raises RuntimeError and the request
\* fails.
HookStart(r) ==
  /\ hook[r] = "L306"
  /\ threads' = [threads EXCEPT ![bot_thread] = TRUE]
  /\ hook' = [hook EXCEPT ![r] = IF threads[bot_thread] THEN "RuntimeError" ELSE "done"]
  /\ UNCHANGED bot_thread
  /\ UNCHANGED botFrame
  /\ UNCHANGED scanVars

BotNext ==
  \E r \in Requests :
    \/ HookCheck(r)
    \/ HookCreate(r)
    \/ HookStart(r)

BotSpec == Init /\ [][BotNext]_vars

\* ------------------------------------------------------------ properties
ScansOf(o) == {w \in Workers : Running(w) /\ self[w] = o}

Symbols(s) == {s[i].symbol : i \in 1 .. Len(s)}

\* C1: on one screener object at most one thread executes scan_stocks at a
\* time (two scan requests in quick succession start one scan, not two).
C1_OneScanAtATime == \A o \in Objects : Cardinality(ScansOf(o)) <= 1

\* C2: at every moment the public result list of a screener is the result of
\* its most recently completed scan, or empty if no scan has completed: the
\* list changes only in the step in which a scan puts its finished result.
C2_SnapshotOfCompletedScan ==
  [][\A o \in Objects :
       screened_stocks'[o] # screened_stocks[o] =>
         \E w \in Workers : self[w] = o /\ pc[w] = "L277" /\ pc'[w] = "L279"]_vars

\* C3: a scan request handled while the current screener is scanning is
\* answered "Scan already in progress" and changes nothing else: no thread
\* is started and no flag or result list changes.
C3_RejectedWhileScanning ==
  [][\A auth \in BOOLEAN :
       (/\ news_screener # NoScreener
        /\ is_scanning[news_screener]
        /\ StartScan(auth))
       => (/\ last' = "400 Scan already in progress"
           /\ UNCHANGED <<news_screener, is_scanning, screened_stocks, pc, self,
                          idx, processed, found>>)]_vars

C3_Witness ==
  /\ last = "400 Scan already in progress"
  /\ news_screener # NoScreener
  /\ is_scanning[news_screener]
  /\ \E w \in Workers : pc[w] = "idle"

\* C4: a scan takes the symbols of the universe one by one in universe
\* order, each once, and leaves the loop only when all have been taken,
\* whatever the outcome of each iteration.
C4_EverySymbolOnce ==
  \A w \in Workers :
    /\ processed[w] = [i \in 1 .. idx[w] |-> i]
    /\ pc[w] = "L216" => idx[w] < NSym
    /\ pc[w] \in {"L277", "L279", "L286", "done"} =>
         processed[w] = [i \in 1 .. NSym |-> i]

C4_Witness ==
  \E w \in Workers :
    /\ pc[w] = "done"
    /\ caught
    /\ \A v \in Workers \ {w} : pc[v] = "idle"
    /\ found[w] = {NSym}
    /\ Len(processed[w]) = NSym

\* C5: the flag of a screener is a boolean, the start of a scan sets it, and
\* every scan that has started reaches line 279 and resets it.
C5_ScanReturnsToIdle ==
  /\ [](\A o \in Objects : is_scanning[o] \in BOOLEAN)
  /\ [][\A w \in Workers :
          (pc[w] = "L139" /\ pc'[w] # "L139") => is_scanning'[self'[w]]]_vars
  /\ \A w \in Workers :
       (pc[w] = "L203") ~> (pc[w] = "L286" /\ ~is_scanning[self[w]])

C5_Witness ==
  \E w \in Workers :
    /\ pc[w] = "L286"
    /\ ~is_scanning[self[w]]
    /\ caught
    /\ \A v \in Workers \ {w} : pc[v] = "idle"

\* C6: when no scan runs on a screener, its result list is in descending
\* order of volume_ratio and entries of equal ratio are in the order in
\* which they were found.
SortedStable(s) ==
  \A i, j \in 1 .. Len(s) :
    i < j => \/ s[i].volume_ratio > s[j].volume_ratio
             \/ /\ s[i].volume_ratio = s[j].volume_ratio
                /\ s[i].ord < s[j].ord

C6_SortedByVolumeRatio ==
  \A o \in Objects : ScansOf(o) = {} => SortedStable(screened_stocks[o])

C6_Witness ==
  \E o \in Objects :
    /\ ScansOf(o) = {}
    /\ \E w \in Workers : pc[w] = "done" /\ self[w] = o
    /\ Len(screened_stocks[o]) = 2
    /\ screened_stocks[o][1].ord > screened_stocks[o][2].ord

\* C7: a scan appends an entry for exactly the symbols whose history and
\* quote were fetched, whose price is in range, whose analysis was computed
\* and which got a signal; a scan that no other scan overlapped returns
\* exactly these entries, one per symbol.
C7_ReturnsThoseThatSucceeded ==
  \A w \in Workers :
    /\ found[w] = qualified[w]
    /\ (Running(w) /\ pc[w] # "L203" /\ w \notin raced) =>
         /\ Symbols(screened_stocks[self[w]]) = found[w]
         /\ Len(screened_stocks[self[w]]) = Cardinality(found[w])

C7_Witness ==
  \E w \in Workers :
    /\ pc[w] = "L286"
    /\ w \notin raced
    /\ caught
    /\ \A v \in Workers \ {w} : pc[v] = "idle"
    /\ Symbols(screened_stocks[self[w]]) = {NSym}

\* C8: determine_signal returns a signal exactly when volume_ratio is at
\* least the surge threshold and |price_change| lies between the minimum and
\* the maximum, both included.
C8_SignalIff ==
  dsIn # None =>
    LET a == dsIn[1].analysis IN
      (dsOut # None) <=>
        (/\ a # None
         /\ a[1].volume_ratio >= config.vst
         /\ config.pcmin <= Abs(a[1].price_change)
         /\ Abs(a[1].price_change) <= config.pcmax)

C8_Witness ==
  /\ dsIn # None /\ dsOut # None
  /\ dsIn[1].analysis[1].volume_ratio = config.vst
  /\ dsIn[1].analysis[1].price_change = -config.pcmax

\* C9: the strength of a signal is VERY STRONG with news, otherwise STRONG
\* with a ratio above 3 and MODERATE without.
C9_Strength ==
  (dsIn # None /\ dsOut # None) =>
    LET a == dsIn[1].analysis[1]
        n == dsIn[1].news_count
    IN dsOut[1].strength =
         IF n > 0 THEN "VERY STRONG"
         ELSE IF a.volume_ratio > 30 THEN "STRONG" ELSE "MODERATE"

C9_Witness ==
  /\ dsIn # None /\ dsOut # None
  /\ dsIn[1].analysis[1].volume_ratio = 40
  /\ dsIn[1].analysis[1].price_change = 60
  /\ dsIn[1].news_count = 0
  /\ dsOut[1].strength = "STRONG"

\* C10 as stated: VERY STRONG only with a ratio above 3 and news, STRONG with
\* a ratio above 3 and no news, MODERATE in every other case.
C10_Original ==
  (dsIn # None /\ dsOut # None) =>
    LET a == dsIn[1].analysis[1]
        n == dsIn[1].news_count
    IN /\ dsOut[1].strength = "VERY STRONG" => (a.volume_ratio > 30 /\ n > 0)
       /\ (a.volume_ratio > 30 /\ n = 0) => dsOut[1].strength = "STRONG"
       /\ ~(a.volume_ratio > 30) => dsOut[1].strength = "MODERATE"

\* C10 amended: a signal is VERY STRONG exactly when there is news, whatever
\* the ratio; without news it is STRONG exactly when the ratio is above 3
\* and MODERATE otherwise.
C10_Amended ==
  (dsIn # None /\ dsOut # None) =>
    LET a == dsIn[1].analysis[1]
        n == dsIn[1].news_count
    IN /\ (dsOut[1].strength = "VERY STRONG") <=> (n > 0)
       /\ (dsOut[1].strength = "STRONG") <=> (n = 0 /\ a.volume_ratio > 30)
       /\ (dsOut[1].strength = "MODERATE") <=> (n = 0 /\ ~(a.volume_ratio > 30))

C10_Witness ==
  /\ dsIn # None /\ dsOut # None
  /\ dsIn[1].analysis[1].volume_ratio <= 30
  /\ dsIn[1].news_count > 0
  /\ dsOut[1].strength = "VERY STRONG"

\* C11: every signal is BULLISH with action BUY (Delivery) when price_change
\* is above 0 and BEARISH with action SELL (Intraday) otherwise, a flat
\* price included, under every setting of the thresholds.
C11_DirectionAndAction ==
  (dsIn # None /\ dsOut # None) =>
    LET a == dsIn[1].analysis[1] IN
      IF a.price_change > 0
      THEN dsOut[1].signal = "BULLISH" /\ dsOut[1].action = "BUY (Delivery)"
      ELSE dsOut[1].signal = "BEARISH" /\ dsOut[1].action = "SELL (Intraday)"

C11_Witness ==
  /\ dsIn # None /\ dsOut # None
  /\ dsIn[1].analysis[1].price_change = 0
  /\ dsOut[1].signal = "BEARISH"
  /\ dsOut[1].action = "SELL (Intraday)"

\* The call of fn has been made and has given ret.
Made(fn) == call # None /\ ret # None /\ call[1].fn = fn

\* C12: for every volume_ratio, price_change, range_ratio, is_major and
\* sentiment_score, the extreme ones included, calculate_strength_score
\* returns a value from 0 to 100.
C12_ScoreInRange ==
  (/\ Made("calculate_strength_score")
   /\ call[1].args.analysis # None
   /\ call[1].args.news_summary.type = "dict")
  => (ret[1].ok /\ ret[1].value \in 0 .. 100)

C12_Witness ==
  /\ Made("calculate_strength_score")
  /\ call[1].args.analysis =
       Some([volume_ratio |-> 10000, price_change |-> 500, range_ratio |-> 21])
  /\ call[1].args.news_summary =
       Dict([sentiment_score |-> Fraction(1, 1), is_major |-> TRUE])
  /\ ret[1].ok
  /\ ret[1].value = 100

\* C13: with a summary, calculate_strength_score is min(100, V + P + N + R):
\* V is 30, 25, 20 for volume_ratio above 5, 3, 2 and 10 otherwise; P is 25,
\* 20, 15 for |price_change| above 8, 5, 3 and 10 otherwise; N is 15 for
\* major news plus 10 or 5 for |sentiment_score| above 0.5 or 0.2; R is 20,
\* 15, 10 for range_ratio above 2, 1.5, 1 and 0 otherwise (0 without one).
C13_ScoreBands ==
  (/\ Made("calculate_strength_score")
   /\ call[1].args.analysis # None
   /\ call[1].args.news_summary.type = "dict")
  => LET a == call[1].args.analysis[1]
         s == call[1].args.news_summary.value
         sc == s.sentiment_score
         mag == IF sc.num < 0 THEN -sc.num ELSE sc.num
         pcAbs == IF a.price_change < 0 THEN -a.price_change ELSE a.price_change
         rr == IF "range_ratio" \in DOMAIN a THEN a.range_ratio ELSE 0
         V == CASE a.volume_ratio > 50 -> 30
                [] a.volume_ratio > 30 /\ a.volume_ratio <= 50 -> 25
                [] a.volume_ratio > 20 /\ a.volume_ratio <= 30 -> 20
                [] a.volume_ratio <= 20 -> 10
         P == CASE pcAbs > 80 -> 25
                [] pcAbs > 50 /\ pcAbs <= 80 -> 20
                [] pcAbs > 30 /\ pcAbs <= 50 -> 15
                [] pcAbs <= 30 -> 10
         N == (IF s.is_major THEN 15 ELSE 0)
                + (CASE 2 * mag > sc.den -> 10
                     [] 2 * mag <= sc.den /\ 5 * mag > sc.den -> 5
                     [] 5 * mag <= sc.den -> 0)
         R == CASE rr > 20 -> 20
                [] rr > 15 /\ rr <= 20 -> 15
                [] rr > 10 /\ rr <= 15 -> 10
                [] rr <= 10 -> 0
     IN /\ ret[1].ok
        /\ ret[1].value = IF V + P + N + R > 100 THEN 100 ELSE V + P + N + R

C13_Witness ==
  /\ Made("calculate_strength_score")
  /\ call[1].args.analysis =
       Some([volume_ratio |-> 50, price_change |-> -80, range_ratio |-> 15])
  /\ call[1].args.news_summary =
       Dict([sentiment_score |-> Fraction(-1, 2), is_major |-> FALSE])
  /\ ret[1].ok
  /\ ret[1].value = 25 + 20 + 5 + 10

\* C14: with the string that get_news_summary gives for no articles,
\* calculate_strength_score returns the sum of its volume, price-change and
\* range components, so that the detail request for a symbol without news,
\* whose frame and quote were fetched and whose analysis was computed, is
\* answered 200 with that score.
C14_NoNewsIsScored ==
  (/\ Made("analyze_stock_detail")
   /\ ret[1].status # 401
   /\ call[1].args.df # None
   /\ call[1].args.q # None
   /\ Len(call[1].args.df[1]) >= 10
   /\ call[1].args.news = <<>>)
  => /\ ret[1].status = 200
     /\ ret[1].strength_score =
          VolumeScore(ret[1].analysis.volume_ratio)
            + PriceScore(ret[1].analysis.price_change)
            + RangeScore(ret[1].analysis.range_ratio)

\* The pairs of an article of the list and a keyword its text contains.
PairHits(l, keywords) ==
  Cardinality({<<i, k>> \in (1 .. Len(l)) \X keywords :
                 Contains(TextOf(l[i]), k)})

\* C15: analyze_sentiment gives (P - N) / (P + N), or 0 when P + N = 0,
\* where P and N count each positive and negative keyword once for every
\* article whose text contains it; the score lies between -1 and 1.
C15_SentimentScore ==
  Made("analyze_sentiment") =>
    LET l == call[1].args.news_articles
        P == PairHits(l, POSITIVE_KEYWORDS)
        N == PairHits(l, NEGATIVE_KEYWORDS)
        s == ret[1].sentiment_score
    IN /\ ret[1].positive_count = P
       /\ ret[1].negative_count = N
       /\ s.den > 0
       /\ IF P + N = 0 THEN s.num = 0
          ELSE s.num * (P + N) = (P - N) * s.den
       /\ -s.den <= s.num /\ s.num <= s.den

C15_Witness ==
  /\ Made("analyze_sentiment")
  /\ call[1].args.news_articles = <<WinsOrder, ProfitSuit>>
  /\ ret[1].positive_count = 3
  /\ ret[1].negative_count = 2
  /\ ret[1].sentiment_score = Fraction(1, 5)

\* C16: get_news_summary gives the string No recent news exactly for the
\* empty list; otherwise the label is Highly Positive for a score above 0.3,
\* Positive for 0 < score <= 0.3, Highly Negative below -0.3, Negative for
\* -0.3 <= score < 0 and Neutral for 0.
C16_SummaryLabel ==
  Made("get_news_summary") =>
    LET l == call[1].args.news_articles IN
      /\ (ret[1].type = "str") <=> (l = <<>>)
      /\ ret[1].type = "str" => ret[1].value = "No recent news"
      /\ ret[1].type # "str" =>
           LET s == ret[1].value.sentiment_score
               label == ret[1].value.sentiment
           IN /\ ret[1].type = "dict"
              /\ s = analyze_sentiment(l).sentiment_score
              /\ (label = "Highly Positive") <=> (10 * s.num > 3 * s.den)
              /\ (label = "Positive") <=>
                   (s.num > 0 /\ 10 * s.num <= 3 * s.den)
              /\ (label = "Highly Negative") <=> (10 * s.num < -3 * s.den)
              /\ (label = "Negative") <=>
                   (s.num < 0 /\ 10 * s.num >= -3 * s.den)
              /\ (label = "Neutral") <=> (s.num = 0)

C16_Witness ==
  /\ Made("get_news_summary")
  /\ call[1].args.news_articles = <<ThirteenUp>>
  /\ ret[1].value.sentiment_score = Fraction(6, 20)
  /\ ret[1].value.sentiment = "Positive"

\* The categories whose keyword set matches the article, as positions in
\* the fixed order contract, financial, acquisition, regulatory, legal,
\* management, product.
CategoryOrder ==
  <<"contract", "financial", "acquisition", "regulatory", "legal",
    "management", "product">>

Matching(article) ==
  {c \in 1 .. Len(CategoryOrder) :
     \E i \in 1 .. Len(MAJOR_NEWS_TYPES) :
       /\ MAJOR_NEWS_TYPES[i].category = CategoryOrder[c]
       /\ \E j \in 1 .. Len(MAJOR_NEWS_TYPES[i].keywords) :
            Contains(TextOf(article), MAJOR_NEWS_TYPES[i].keywords[j])}

\* The category assigned to an article that matches one.
Assigned(article) ==
  CategoryOrder[CHOOSE c \in Matching(article) :
                  \A d \in Matching(article) : c <= d]

\* The position in cats of the first occurrence of c.
FirstSeen(cats, c) ==
  CHOOSE i \in 1 .. Len(cats) :
    cats[i] = c /\ \A j \in 1 .. Len(cats) : cats[j] = c => i <= j

\* C17: categorize_news gives, for the articles that match a category and
\* in their order, the first category of the fixed order that matches, one
\* per article; the category of the summary is the most frequent of these,
\* of equally frequent ones the one met first, and General News if no
\* article matches.
C17_Category ==
  /\ Made("categorize_news") =>
       LET l == call[1].args.news_articles
           hit == {i \in 1 .. Len(l) : Matching(l[i]) # {}}
       IN /\ Len(ret[1]) = Cardinality(hit)
          /\ \A i \in hit :
               ret[1][Cardinality({j \in hit : j <= i})] = Assigned(l[i])
  /\ Made("get_news_summary") /\ ret[1].type = "dict" =>
       LET cats == categorize_news(call[1].args.news_articles)
           seen == {cats[i] : i \in 1 .. Len(cats)}
       IN IF seen = {} THEN ret[1].value.category = "General News"
          ELSE \E c \in seen :
                 /\ ret[1].value.category = TitleNews(c)
                 /\ \A d \in seen \ {c} :
                      \/ CountOf(cats, d) < CountOf(cats, c)
                      \/ /\ CountOf(cats, d) = CountOf(cats, c)
                         /\ FirstSeen(cats, c) < FirstSeen(cats, d)

C17_Witness ==
  /\ Made("get_news_summary")
  /\ call[1].args.news_articles = <<NewCeo, Showcase>>
  /\ ret[1].value.category = "Management News"

\* C18: is_major_news is true exactly when the category assigned to some
\* article is contract, acquisition, regulatory or legal; keywords of such a
\* category in an article assigned to another category do not count.
C18_MajorNews ==
  /\ Made("is_major_news") =>
       LET l == call[1].args.news_articles IN
         ret[1] <=> \E i \in 1 .. Len(l) :
                      /\ Matching(l[i]) # {}
                      /\ Assigned(l[i]) \in
                           {"contract", "acquisition", "regulatory", "legal"}
  /\ Made("get_news_summary") /\ ret[1].type = "dict" =>
       LET l == call[1].args.news_articles IN
         ret[1].value.is_major <=>
           \E i \in 1 .. Len(l) :
             /\ Matching(l[i]) # {}
             /\ Assigned(l[i]) \in
                  {"contract", "acquisition", "regulatory", "legal"}

C18_Witness ==
  /\ Made("is_major_news")
  /\ call[1].args.news_articles = <<ProfitSuit, NewCeo>>
  /\ ret[1] = FALSE

\* C19: check_breakout is false without 20 candles, whatever the price; with
\* 20 or more it is true exactly when the price is above 1.02 times every
\* high, or below 0.98 times every low, of the last 20 candles.
C19_Breakout ==
  Made("check_breakout") =>
    LET df == call[1].args.df
        p == call[1].args.current_quote.ltp
    IN IF df = None THEN ret[1] = FALSE
       ELSE IF Len(df[1]) < 20 THEN ret[1] = FALSE
       ELSE LET last20 == (Len(df[1]) - 19) .. Len(df[1])
            IN ret[1] <=>
                 \/ \A i \in last20 : 100 * p > 102 * df[1][i].high
                 \/ \A i \in last20 : 100 * p < 98 * df[1][i].low

C19_Witness ==
  /\ Made("check_breakout")
  /\ call[1].args.df # None
  /\ Len(call[1].args.df[1]) = 21
  /\ call[1].args.df[1][1].high = 200
  /\ call[1].args.df[1][2].high = 110
  /\ call[1].args.current_quote.ltp = 113
  /\ ret[1] = TRUE

\* C20: analyze_volume_and_price gives no result for fewer than 10 candles
\* and the scan then adds no entry for the symbol; with a result,
\* volume_ratio is 0 when the candles but the last have no volume and
\* range_ratio is 0 when no candle has a range, and nothing is divided by 0.
C20_NoDivisionByZero ==
  /\ Made("analyze_volume_and_price") =>
       LET df == call[1].args.df IN
         IF df = None THEN ret[1] = None
         ELSE IF Len(df[1]) < 10 THEN ret[1] = None
         ELSE /\ ret[1] # None
              /\ (\A i \in 1 .. Len(df[1]) - 1 : df[1][i].volume = 0)
                   => ret[1][1].volume_ratio = 0
              /\ (\A i \in 1 .. Len(df[1]) : df[1][i].high = df[1][i].low)
                   => ret[1][1].range_ratio = 0
  /\ Made("scan_stocks") =>
       LET df == call[1].args.df IN
         (/\ df # None
          /\ Len(df[1]) < 10
          /\ call[1].args.current_quote # None
          /\ PriceInRange(config, call[1].args.current_quote[1])
          /\ call[1].args.exc = "none")
           => ret[1].outcome = "no_analysis" /\ ret[1].stock_data = None

C20_Witness ==
  /\ Made("analyze_volume_and_price")
  /\ call[1].args.df = Some(Frame(10, 0, 500, 0))
  /\ call[1].args.current_quote.volume = 400
  /\ call[1].args.current_quote.ltp = 110
  /\ ret[1] # None
  /\ ret[1][1].volume_ratio = 0
  /\ ret[1][1].range_ratio = 0

\* C21: every entry a scan appends carries the result of the scorer, a
\* strength_score between 0 and 100, next to symbol, name, ltp, price_change,
\* volume_ratio, the signal fields, news_count, at most 3 news items and the
\* timestamp of the scan.
C21_EntryCarriesScore ==
  (Made("scan_stocks") /\ ret[1].stock_data # None) =>
    LET entry == ret[1].stock_data[1] IN
      /\ {"symbol", "name", "ltp", "price_change", "volume_ratio", "signal",
          "action", "strength", "news_count", "news", "timestamp"}
            \subseteq DOMAIN entry
      /\ Len(entry.news) <= 3
      /\ "strength_score" \in DOMAIN entry
      /\ entry.strength_score \in 0 .. ScoreCap

\* C22: however the processing of a symbol ends (skipped, errored or
\* appended), its last step is the rate-limit sleep, so that the sleep comes
\* before the first external call for the next symbol.
C22_SleepAfterEverySymbol ==
  Made("scan_stocks") => ret[1].calls[Len(ret[1].calls)] = "sleep"

\* C23: fetch_news_for_stock returns at most 5 articles, the first ones of
\* the answer, and the empty list when the provider fails (an exception or a
\* status other than 200); in a scan such a failure does not skip the symbol,
\* which goes to determine_signal with a news count of 0.
C23_NewsFailureIsNoNews ==
  /\ Made("fetch_news_for_stock") =>
       LET r == call[1].args.response IN
         /\ ret[1].ok
         /\ Len(ret[1].value) <= 5
         /\ (~r.ok \/ r.value.status_code # 200) => ret[1].value = <<>>
         /\ (r.ok /\ r.value.status_code = 200) =>
              /\ Len(ret[1].value) <= Len(r.value.articles)
              /\ Len(r.value.articles) <= 5 => ret[1].value = r.value.articles
              /\ Len(r.value.articles) > 5 => Len(ret[1].value) = 5
              /\ \A i \in 1 .. Len(ret[1].value) :
                   ret[1].value[i] = r.value.articles[i]
  /\ Made("scan_stocks") =>
       LET a == call[1].args IN
         (/\ ~a.response.ok \/ a.response.value.status_code # 200
          /\ a.df # None
          /\ a.current_quote # None
          /\ PriceInRange(config, a.current_quote[1])
          /\ Len(a.df[1]) >= MinCandles
          /\ a.exc = "none")
           => LET analysis == analyze_volume_and_price(a.df, a.current_quote[1])
              IN /\ \E i \in 1 .. Len(ret[1].calls) :
                      ret[1].calls[i] = "determine_signal"
                 /\ ret[1].outcome =
                      IF determine_signal(config, analysis, 0) = None
                      THEN "no_signal" ELSE "appended"
                 /\ ret[1].stock_data # None =>
                      /\ ret[1].stock_data[1].news_count = 0
                      /\ ret[1].stock_data[1].news = <<>>
                      /\ ret[1].stock_data[1].strength \in {"STRONG", "MODERATE"}

C23_Witness ==
  /\ Made("scan_stocks")
  /\ call[1].args.response = Raise("Timeout")
  /\ ret[1].outcome = "appended"
  /\ ret[1].stock_data[1].news_count = 0

\* C24: a get of the settings that follows a set with values V returns V,
\* and the six values a get returns are the thresholds that determine_signal
\* and the price-range filter apply.
C24_GetReturnsWhatIsApplied ==
  Made("GET") =>
    /\ session # None => ret[1] = session[1]
    /\ ret[1].volume_threshold = config.vst
    /\ ret[1].price_change_min = config.pcmin
    /\ ret[1].price_change_max = config.pcmax
    /\ ret[1].lookback_days = getenv(environ, "LOOKBACK_DAYS", LOOKBACK_DAYS)
    /\ ret[1].min_price = config.minp
    /\ ret[1].max_price = config.maxp

\* C25: once a scan started by the scan endpoint has completed, its results
\* are the stored results of the tick broadcaster: a later tick for a symbol
\* carries a signal exactly when the symbol is in the results of that scan.
C25_TicksCarryScanResults ==
  [][\A s \in Universe : \A w \in Workers :
       (/\ Tick(s)
        /\ pc[w] = "done"
        /\ \A v \in Workers \ {w} : pc[v] = "idle")
       => (tick'[1].screener_signal # None
             <=> s \in Symbols(screened_stocks[self[w]]))]_vars

\* C26: in every reachable state the result list of a screener has at most
\* one entry per symbol.
C26_OneEntryPerSymbol ==
  \A o \in Objects :
    \A i, j \in 1 .. Len(screened_stocks[o]) :
      screened_stocks[o][i].symbol = screened_stocks[o][j].symbol => i = j

\* The thread is past line 202 and before line 279 has been executed.
Scanning(w) == pc[w] \in {"L203", "L216", "L277", "L279"}

\* C27: as long as a scan thread is executing, the status and the results
\* endpoints report is_scanning = true, also when the screener has been
\* initialized again in the meantime (so that a new scan is rejected).
C27_RunningScanIsReported ==
  \A w \in Workers :
    (Scanning(w) /\ w \notin raced) =>
      get_status.is_scanning /\ get_results.is_scanning

\* No other thread has run scan_stocks on the screener of w.
Alone(w) == \A v \in Workers \ {w} : self[v] # self[w]

\* C28: for a single scan of a screener, a reader that finds the flag False
\* after the scan has started finds the complete and sorted result of the
\* scan: every symbol has been taken, the list holds one entry for each
\* symbol found, in descending order of volume_ratio.
C28_IdleMeansComplete ==
  \A w \in Workers :
    (self[w] # NoScreener /\ Alone(w) /\ ~is_scanning[self[w]]) =>
      /\ pc[w] \in {"L286", "done"}
      /\ processed[w] = [i \in 1 .. NSym |-> i]
      /\ Symbols(screened_stocks[self[w]]) = found[w]
      /\ Len(screened_stocks[self[w]]) = Cardinality(found[w])
      /\ SortedStable(screened_stocks[self[w]])

C28_Witness ==
  \E w \in Workers :
    /\ pc[w] = "L286"
    /\ Alone(w)
    /\ ~is_scanning[self[w]]
    /\ news_screener = self[w]
    /\ get_results.count = NSym
    /\ get_results.stocks[1].ord > get_results.stocks[2].ord

\* C29: whatever the interleaving of the first requests, exactly one bot
\* thread is ever created and started: never more than one Thread object,
\* and once every request is through the hook that one has been started.
C29_OneBotThread ==
  /\ Len(threads) <= 1
  /\ (\A r \in Requests : hook[r] \notin {"idle", "L305", "L306"}) =>
       /\ Len(threads) = 1
       /\ threads[1]
       /\ \A r \in Requests : hook[r] = "done"

\* C30: a detail request leaves the scan state as it is: whatever it
\* answers (200, 401, 404 or 500) and whether or not a scan is running, the
\* flag and the result list of every screener, the current screener and the
\* scan threads are the same after it as before.
C30_AnalyzeLeavesScanState ==
  [][AnalyzeDuringScan =>
       UNCHANGED <<news_screener, is_scanning, screened_stocks, pc, self, idx,
                   processed, found>>]_vars

C30_Witness ==
  /\ last = "500 TypeError"
  /\ news_screener # NoScreener
  /\ is_scanning[news_screener]
  /\ Len(screened_stocks[news_screener]) = 1
  /\ \E w \in Workers : pc[w] = "L216" /\ idx[w] = 1

====
